---------------------------- MODULE Spec2Model ----------------------------
(***************************************************************************)
(* Model of truck-load-watch: the watcher loop of watcher.py (check_loads  *)
(* driven by the __main__ scheduler) and the settings writers of bot.py,   *)
(* sharing one MongoDB store.                                              *)
(*                                                                         *)
(* Time is counted in ticks of 30 minutes since a UTC midnight.  Text is   *)
(* a sequence of one-character strings.                                    *)
(***************************************************************************)
EXTENDS Integers, Sequences, FiniteSets, TLC

\* ------------------------------------------------------------- bounds
\* How many ticks the clock may advance after the process has started.
MaxElapsed == 3
\* The largest daily threshold the settings record is given.
MaxThreshold == 2

\* ---------------------------------------------------------- constants
TicksPerHour == 2
HoursPerDay == 24
TicksPerDay == TicksPerHour * HoursPerDay
\* US/Eastern standard time is UTC-5.
EasternOffsetHours == 5
OpenHour == 6
CloseHour == 18
SessionMaxAgeHours == 1

\* --------------------------------------------------------------- text
\* The letters of the model's texts; any other character is its own
\* lower case.
LowerChar(c) ==
  CASE c = "A" -> "a"
    [] c = "B" -> "b"
    [] c = "C" -> "c"
    [] c = "D" -> "d"
    [] c = "O" -> "o"
    [] c = "P" -> "p"
    [] c = "X" -> "x"
    [] OTHER -> c

\* str.lower()
Lower(s) == [i \in 1..Len(s) |-> LowerChar(s[i])]

\* Python's `p in s` on strings: p occurs in s as a contiguous slice.
In(p, s) ==
  \E k \in 0..(Len(s) - Len(p)) :
    \A j \in 1..Len(p) : s[k + j] = p[j]

\* any(x.lower() in field.lower() for x in patterns)
AnyIn(patterns, field) ==
  \E n \in 1..Len(patterns) : In(Lower(patterns[n]), Lower(field))

IsDigit(c) == c \in {"0", "1", "2", "3", "4", "5", "6", "7", "8", "9"}

DigitVal(c) ==
  CASE c = "0" -> 0 [] c = "1" -> 1 [] c = "2" -> 2 [] c = "3" -> 3
    [] c = "4" -> 4 [] c = "5" -> 5 [] c = "6" -> 6 [] c = "7" -> 7
    [] c = "8" -> 8 [] c = "9" -> 9

\* int() of the digit slice s[a..b]
RECURSIVE IntOf(_, _, _)
IntOf(s, a, b) ==
  IF b < a THEN 0 ELSE IntOf(s, a, b - 1) * 10 + DigitVal(s[b])

LbsSuffix == <<" ", "l", "b", "s">>

\* Whether WEIGHT_RE = (\d+) lbs matches s starting at position a with its
\* digit group ending at position b: s[a..b] are digits and " lbs" follows.
WeightMatchAt(s, a, b) ==
  /\ a <= b
  /\ \A i \in a..b : IsDigit(s[i])
  /\ b + Len(LbsSuffix) <= Len(s)
  /\ \A j \in 1..Len(LbsSuffix) : s[b + j] = LbsSuffix[j]

\* The (start, end) pairs of the digit group over all matches of WEIGHT_RE.
WeightMatches(s) ==
  {m \in (1..Len(s)) \X (1..Len(s)) : WeightMatchAt(s, m[1], m[2])}

\* re.search(WEIGHT_RE, s): the digit group of the leftmost match, or NoMatch
\* (Python's None) when there is none.  From a start position the digit
\* group is fixed by the text that follows, so a start has at most one match.
NoMatch == <<>>

WeightSearch(s) ==
  IF WeightMatches(s) = {} THEN NoMatch
  ELSE CHOOSE m \in WeightMatches(s) :
         \A o \in WeightMatches(s) : m[1] <= o[1]

\* int(weight_res.group(1))
WeightOf(s) == IntOf(s, WeightSearch(s)[1], WeightSearch(s)[2])

\* -------------------------------------------------------------- clock
\* datetime.now(tz=timezone("US/Eastern")).time().hour for UTC tick t
EasternHour(t) ==
  ((t \div TicksPerHour) + HoursPerDay - EasternOffsetHours) % HoursPerDay

\* now_time.hour < 6 or now_time.hour > 18
OutsideHours(t) == EasternHour(t) < OpenHour \/ EasternHour(t) > CloseHour

\* datetime.combine(datetime.utcnow(), datetime.min.time())
StartOfDay(t) == (t \div TicksPerDay) * TicksPerDay

\* Mutant of SessionExpired: a token of exactly one hour taken as expired.
SessionExpired_AtOneHour(t, dt) == (t - dt) >= SessionMaxAgeHours * TicksPerHour

\* (datetime.utcnow() - cache_doc["dt"]).total_seconds() / 3600 > 1
SessionExpired(t, dt) == (t - dt) > SessionMaxAgeHours * TicksPerHour


\* str.split(d): the parts of s between the occurrences of d
RECURSIVE Split(_, _)
Split(s, d) ==
  LET hits == {k \in 1..(Len(s) - Len(d) + 1) :
                 \A j \in 1..Len(d) : s[k + j - 1] = d[j]}
  IN IF hits = {} THEN <<s>>
     ELSE LET k == CHOOSE h \in hits : \A o \in hits : h <= o
          IN <<SubSeq(s, 1, k - 1)>> \o Split(SubSeq(s, k + Len(d), Len(s)), d)

OriginDelim == <<" ", "P", ":">>
DestDelim == <<" ", "D", ":">>

\* ------------------------------------------------- the remote listing
\* A listing row as check_loads keeps it after the cell scan: the cells it
\* reads, by entry index (0 dsm, 1 origin, 2 dest, 4 consignee, 5 weight,
\* 6 ship mode, 8 the accept input's name).
Row(dsm, origin, dest, consignee, weight, ship, action) ==
  [dsm |-> dsm, origin |-> origin, dest |-> dest, consignee |-> consignee,
   weight |-> weight, ship |-> ship, action |-> action]

OriginOk == <<"X", " ", "P", ":", "1">>
OriginBad == <<"X", "1">>
DestAb == <<"A", "b", " ", "D", ":", "2">>
DestBb == <<"B", "b", " ", "D", ":", "2">>
ConsCo == <<"C", "o">>
ShipC == <<"c">>
W(digits) == digits \o LbsSuffix

RowA200 == Row(1, OriginOk, DestAb, ConsCo, W(<<"2", "0", "0">>), ShipC, "action1")
RowB150 == Row(2, OriginOk, DestAb, ConsCo, W(<<"1", "5", "0">>), ShipC, "action2")
RowC400 == Row(3, OriginOk, DestAb, ConsCo, W(<<"4", "0", "0">>), ShipC, "action3")
RowD100 == Row(4, OriginOk, DestBb, ConsCo, W(<<"1", "0", "0">>), ShipC, "action4")
RowA90 == Row(1, OriginOk, DestAb, ConsCo, W(<<"9", "0">>), ShipC, "action1")
RowNoWeight == Row(3, OriginOk, DestAb, ConsCo, <<"n", "a">>, ShipC, "action3")
RowNoOrigin == Row(3, OriginBad, DestAb, ConsCo, W(<<"3", "0", "0">>), ShipC, "action3")
RowE120 == Row(5, OriginOk, DestAb, <<"Z">>, W(<<"1", "2", "0">>), ShipC, "action5")
RowF130 == Row(6, OriginOk, DestAb, ConsCo, W(<<"1", "3", "0">>), <<"z">>, "action6")

\* A form input as (name, value).
Input(name, value) == [name |-> name, value |-> value]
HiddenInputs ==
  <<Input("initialized", "true"), Input("refreshLoads", "false"),
    Input("openPreassignedMarketIdList", "1,2")>>

\* A fetched document: the inputs of its forms in document order, and the
\* data rows of its table in document order.
Doc(inputs, rows) == [inputs |-> inputs, rows |-> rows]

\* The accept input of a row's last cell, and the inputs of a form that
\* encloses the table: the hidden inputs, then the rows' accept inputs.
AcceptInput(row) == Input(row.action, "accept")
TableForm(rows) == HiddenInputs \o [i \in 1..Len(rows) |-> AcceptInput(rows[i])]

\* The documents the source serves: the first has its table inside the
\* form, the others beside it.
Documents ==
  { Doc(TableForm(<<RowA200, RowB150, RowC400>>), <<RowA200, RowB150, RowC400>>),
    Doc(HiddenInputs, <<RowA200, RowD100, RowA90>>),
    Doc(HiddenInputs, <<RowB150, RowNoWeight>>),
    Doc(HiddenInputs, <<RowNoOrigin, RowB150>>),
    Doc(HiddenInputs, <<RowE120, RowF130>>),
    Doc(HiddenInputs, <<>>) }

\* The rule patterns the stored logic record and the bot commands carry.
Logic(d, c, s) == [destinations |-> d, consignees |-> c, ship_modes |-> s]

InitialLogics ==
  { Logic(<<<<"a">>>>, <<<<"x">>, <<"C", "O">>>>, <<<<"C">>>>),
    Logic(<<<<"B", "b">>>>, <<<<"o">>>>, <<<<"x">>, <<"c">>>>),
    Logic(<<<<"a">>>>, <<>>, <<<<"C">>>>) }

DestinationArgs == { <<<<"B", "b">>>> }
ConsigneeArgs == { <<<<"x">>>> }
ShipModeArgs == { <<<<"x">>, <<"c">>>> }

\* A value of the acceptance payload: Python's bool, str, int or None.
PyBool(b) == [type |-> "bool", v |-> b]
PyStr(s) == [type |-> "str", v |-> s]
PyInt(n) == [type |-> "int", v |-> n]
PyNone == [type |-> "NoneType", v |-> "None"]

\* Lines 185-188: the strings "true" and "false" become booleans.
Coerce(value) ==
  IF value = "true" THEN PyBool("True")
  ELSE IF value = "false" THEN PyBool("False")
  ELSE PyStr(value)

\* Lines 179-190: accept_data[name] = value over the inputs of every form,
\* a later input of the same name replacing an earlier one.
ScanInputs(inputs) ==
  LET names == {inputs[i].name : i \in 1..Len(inputs)}
      last(n) == CHOOSE i \in 1..Len(inputs) :
                   /\ inputs[i].name = n
                   /\ \A j \in 1..Len(inputs) : inputs[j].name = n => j <= i
  IN [n \in names |-> Coerce(inputs[last(n)].value)]

\* Mutant of SortByWeight: the rows left in document order.
SortByWeight_DocumentOrder(rows) == rows

\* sorted(data, key=lambda x: x[5]): stable insertion by weight.
RECURSIVE SortByWeight(_)
SortByWeight(rows) ==
  IF rows = <<>> THEN <<>>
  ELSE LET rest == SortByWeight(SubSeq(rows, 1, Len(rows) - 1))
           x == rows[Len(rows)]
           k == Cardinality({i \in 1..Len(rest) : rest[i].weight <= x.weight})
       IN SubSeq(rest, 1, k) \o <<x>> \o SubSeq(rest, k + 1, Len(rest))

\* Lines 222-226: every row's weight text replaced by the parsed integer.
ParseWeights(rows) ==
  [i \in 1..Len(rows) |-> [rows[i] EXCEPT !.weight = WeightOf(rows[i].weight)]]

\* Mutant of Matches: the three tests joined by `or`.
Matches_AnyCategory(entry, rules) ==
  \/ AnyIn(rules.destinations, Split(entry.dest, DestDelim)[1])
  \/ AnyIn(rules.consignees, entry.consignee)
  \/ AnyIn(rules.ship_modes, entry.ship)

\* Lines 250-263: the three any(...) tests joined by `and`.
Matches(entry, rules) ==
  /\ AnyIn(rules.destinations, Split(entry.dest, DestDelim)[1])
  /\ AnyIn(rules.consignees, entry.consignee)
  /\ AnyIn(rules.ship_modes, entry.ship)

\* --------------------------------------------------------------- state
VARIABLES
  now,             \* the clock, in ticks since a UTC midnight
  boot,            \* the tick at which the watcher process started
  status_doc,      \* db.settings documents with key "status" (none or one)
  threshold_doc,   \* db.settings documents with key "load-threshold"
  logic_doc,       \* db.settings documents with key "logic"
  loads,           \* db.loads, in insertion order
  cache_doc,       \* db.cache documents with key "cookies"
  pc,              \* where the watcher process is
  S_cookies,       \* the cookie jar of the requests session S
  remaining_loads, accept_data, data, idx, logic, new_loads, action_ids, text,
  result,          \* what the last check_loads call returned
  trace,           \* the store and network operations of the current cycle
  posted,          \* the payloads POSTed to CPRespondToOffers.jsp this cycle
  sent,            \* the texts POSTed to sendMessage this cycle
  listing,         \* the documents the remote source may serve in this run
  cmd              \* the bot's last on/off command, and whether a cycle
                   \* has started since it completed

db == <<status_doc, threshold_doc, logic_doc, loads, cache_doc>>
locals ==
  <<remaining_loads, accept_data, data, idx, logic, new_loads, action_ids, text>>
vars ==
  <<now, boot, db, pc, S_cookies, locals, result, trace, posted, sent,
    listing, cmd>>

\* The one document of a collection that holds one.
TheDoc(docs) == CHOOSE d \in docs : TRUE

BootTimes == {21, 45}

Init ==
  /\ boot \in BootTimes
  /\ now = boot
  /\ status_doc \in {{}, {[enabled |-> TRUE]}, {[enabled |-> FALSE]}}
  /\ threshold_doc \in {{}} \cup {{[threshold |-> n]} : n \in 0..MaxThreshold}
  /\ logic_doc \in {{}} \cup {{l} : l \in InitialLogics}
  /\ loads = <<>>
  /\ cache_doc \in {{}, {[cookies |-> {boot - 1}, dt |-> boot - 1]}}
  /\ pc = "start"
  /\ S_cookies = {}
  /\ remaining_loads = 0
  /\ accept_data = <<>>
  /\ data = <<>>
  /\ idx = 0
  /\ logic = {}
  /\ new_loads = 0
  /\ action_ids = <<>>
  /\ text = <<>>
  /\ result = "None"
  /\ trace = <<>>
  /\ posted = <<>>
  /\ sent = <<>>
  /\ listing = Documents
  /\ cmd = "none"

\* The frame's locals are gone once check_loads has returned or raised.
DropLocals ==
  /\ remaining_loads' = 0
  /\ accept_data' = <<>>
  /\ data' = <<>>
  /\ idx' = 0
  /\ logic' = {}
  /\ new_loads' = 0
  /\ action_ids' = <<>>
  /\ text' = <<>>

\* check_loads returns r to the loop of __main__, which goes to sleep.
Return(r) == pc' = "sleep" /\ result' = r /\ DropLocals

\* An exception leaves check_loads; __main__ has no handler, so the
\* interpreter exits and the process memory is gone.
Raise == pc' = "crashed" /\ S_cookies' = {} /\ DropLocals /\ UNCHANGED result

\* ------------------------------------------------------------ watcher
\* What a request to the remote source or to Telegram comes to: a response
\* that is ok, a response that is not (for the login: the credentials are
\* rejected), or an exception raised by requests.
Outcomes == {"ok", "not_ok", "raised"}

\* An entry of the trace: a store operation, or a request and its outcome.
Db(op) == [op |-> op, out |-> "ok"]
Req(op, o) == [op |-> op, out |-> o]

\* Lines 150-153: the operating-hours gate opens a cycle.  A disable
\* command that has completed is from now on one that came before the
\* running cycle started.
HoursGate ==
  /\ pc = "start"
  /\ trace' = <<>>
  /\ posted' = <<>>
  /\ sent' = <<>>
  /\ IF OutsideHours(now)
     THEN Return("Outside of hours")
     ELSE pc' = "status" /\ UNCHANGED <<locals, result>>
  /\ cmd' = (IF cmd = "disable" THEN "disable_before_cycle" ELSE cmd)
  /\ UNCHANGED <<now, boot, listing, db, S_cookies>>

\* Mutant of IsDisabled: the test inverted.
IsDisabled_Inverted(doc) == doc.enabled

\* Line 157: not status_doc.get("enabled")
IsDisabled(doc) == ~doc.enabled

\* Lines 155-162: the status record is read, and inserted when missing.
EnablementGate ==
  /\ pc = "status"
  /\ IF status_doc # {}
     THEN /\ trace' = Append(trace, Db("find_status"))
          /\ UNCHANGED status_doc
          /\ IF IsDisabled(TheDoc(status_doc))
             THEN Return("Disabled")
             ELSE pc' = "quota" /\ UNCHANGED <<locals, result>>
     ELSE /\ trace' = trace \o <<Db("find_status"), Db("insert_status")>>
          /\ status_doc' = {[enabled |-> TRUE]}
          /\ pc' = "quota"
          /\ UNCHANGED <<locals, result>>
  /\ UNCHANGED <<now, boot, listing, cmd, threshold_doc, logic_doc, loads, cache_doc,
                 S_cookies, posted, sent>>

\* Lines 137-140: the accepted loads dated today or later.
AcceptedToday(t) ==
  {i \in 1..Len(loads) :
     loads[i].status = "accept" /\ loads[i].dt >= StartOfDay(t)}

\* Mutant of RemainingLoads: every accepted load counted, whatever its day.
RemainingLoads_AllDays(t) == TheDoc(threshold_doc).threshold - Len(loads)

\* Lines 131-143: check_accepted_load_threshold()
RemainingLoads(t) ==
  TheDoc(threshold_doc).threshold - Cardinality(AcceptedToday(t))

\* Lines 164-167: the quota gate.  A missing threshold record is None, and
\* subscripting it raises TypeError.
QuotaGate ==
  /\ pc = "quota"
  /\ trace' = trace \o <<Db("find_threshold"), Db("find_loads")>>
  /\ IF threshold_doc = {}
     THEN Raise
     ELSE /\ UNCHANGED S_cookies
          /\ IF RemainingLoads(now) <= 0
             THEN Return("Done")
             ELSE /\ remaining_loads' = RemainingLoads(now)
                  /\ pc' = "session"
                  /\ UNCHANGED <<accept_data, data, idx, logic, new_loads,
                                 action_ids, text, result>>
  /\ UNCHANGED <<now, boot, listing, cmd, db, posted, sent>>

\* Lines 64-94: login().  The POST may raise; its response is not looked
\* at, so the jar is cached with a fresh dt whether the source accepted the
\* credentials (the jar then holds the new session) or rejected them (the
\* jar is left as it was).
Login(o) ==
  IF o = "raised"
  THEN /\ trace' = trace \o <<Db("find_cache"), Req("login", o)>>
       /\ Raise
       /\ UNCHANGED cache_doc
  ELSE /\ trace' = trace \o <<Db("find_cache"), Req("login", o), Db("update_cache")>>
       /\ S_cookies' = (IF o = "ok" THEN {now} ELSE S_cookies)
       /\ cache_doc' = {[cookies |-> S_cookies', dt |-> now]}
       /\ pc' = "fetch"
       /\ UNCHANGED <<locals, result>>

\* Lines 49-61: check_session()
CheckSession ==
  /\ pc = "session"
  /\ IF cache_doc = {}
     THEN \E o \in Outcomes : Login(o)
     ELSE IF SessionExpired(now, TheDoc(cache_doc).dt)
     THEN \E o \in Outcomes : Login(o)
     ELSE /\ trace' = Append(trace, Db("find_cache"))
          /\ S_cookies' = (IF S_cookies = {} THEN TheDoc(cache_doc).cookies
                           ELSE S_cookies)
          /\ pc' = "fetch"
          /\ UNCHANGED <<cache_doc, locals, result>>
  /\ UNCHANGED <<now, boot, listing, cmd, status_doc, threshold_doc, logic_doc, loads,
                 posted, sent>>

\* What the GET of the listing comes to: an exception raised by requests,
\* or a response, ok or not, whose body is one of the documents the source
\* may serve.
Responses ==
  {[raised |-> TRUE, ok |-> FALSE, doc |-> Doc(<<>>, <<>>)]}
    \cup {[raised |-> FALSE, ok |-> k, doc |-> d] : k \in BOOLEAN, d \in listing}

\* Mutant of FetchFailed: the status of the response is not looked at.
FetchFailed_Ignored(resp) == FALSE

\* Line 172: not r.ok
FetchFailed(resp) == ~resp.ok

\* Lines 169-220: the listing is fetched; a response that is not ok ends
\* the cycle; otherwise the inputs of the forms are scanned into
\* accept_data and the data rows of the table into data.
FetchOffers ==
  /\ pc = "fetch"
  /\ \E resp \in Responses :
       IF resp.raised
       THEN trace' = Append(trace, Req("fetch", "raised")) /\ Raise
       ELSE /\ trace' = Append(trace, Req("fetch", IF resp.ok THEN "ok" ELSE "not_ok"))
            /\ UNCHANGED S_cookies
            /\ IF FetchFailed(resp)
               THEN Return("None")
               ELSE /\ accept_data' = ScanInputs(resp.doc.inputs)
                    /\ data' = resp.doc.rows
                    /\ pc' = "parse"
                    /\ UNCHANGED <<remaining_loads, idx, logic, new_loads,
                                   action_ids, text, result>>
  /\ UNCHANGED <<now, boot, listing, cmd, db, posted, sent>>

\* Lines 224-225: WEIGHT_RE matches the weight text of some row nowhere, so
\* weight_res is None and weight_res.group raises AttributeError.
Unparsable(rows) ==
  \E i \in 1..Len(rows) : WeightSearch(rows[i].weight) = NoMatch

\* Mutant of ParseRows: a row whose weight does not parse is skipped and the
\* cycle goes on with the rows that are left.
ParseRows_SkipsBadRows ==
  /\ pc = "parse"
  /\ LET good == SelectSeq(data, LAMBDA r : WeightSearch(r.weight) # NoMatch) IN
       IF good = <<>>
       THEN Return("None") /\ UNCHANGED <<trace, S_cookies>>
       ELSE /\ trace' = Append(trace, Db("find_logic"))
            /\ data' = SortByWeight(ParseWeights(good))
            /\ logic' = logic_doc
            /\ new_loads' = 0
            /\ action_ids' = <<>>
            /\ text' = <<>>
            /\ idx' = 0
            /\ pc' = "loop"
            /\ UNCHANGED <<remaining_loads, accept_data, result, S_cookies>>
  /\ UNCHANGED <<now, boot, listing, cmd, db, posted, sent>>

\* Lines 222-233: with no row the cycle is over; otherwise every row's
\* weight is parsed, the rows are sorted by weight and the logic record is
\* read.
ParseRows ==
  /\ pc = "parse"
  /\ IF data = <<>>
     THEN Return("None") /\ UNCHANGED <<trace, S_cookies>>
     ELSE IF Unparsable(data)
     THEN Raise /\ UNCHANGED trace
     ELSE /\ trace' = Append(trace, Db("find_logic"))
          /\ data' = SortByWeight(ParseWeights(data))
          /\ logic' = logic_doc
          /\ new_loads' = 0
          /\ action_ids' = <<>>
          /\ text' = <<>>
          /\ idx' = 0
          /\ pc' = "loop"
          /\ UNCHANGED <<remaining_loads, accept_data, result, S_cookies>>
  /\ UNCHANGED <<now, boot, listing, cmd, db, posted, sent>>

\* Mutant of InHistory: the dsm looked up as the cell's text, which equals
\* no stored integer, so find_one never finds a record.
InHistory_TextKey(dsm) == FALSE

\* Line 237: db.loads.find_one({"dsm": dsm})
InHistory(dsm) == \E i \in 1..Len(loads) : loads[i].dsm = dsm

\* Lines 281-295: the record inserted for an accepted entry.
LoadRecord(entry, t) ==
  [dsm |-> entry.dsm, action_id |-> entry.action,
   origin_loc |-> Split(entry.origin, OriginDelim)[1],
   origin_dt |-> Split(entry.origin, OriginDelim)[2],
   dest_loc |-> Split(entry.dest, DestDelim)[1],
   dest_dt |-> Split(entry.dest, DestDelim)[2],
   consignee |-> entry.consignee, weight |-> entry.weight,
   exc_ship_mode |-> entry.ship, status |-> "accept", dt |-> t]

\* Lines 271-279: the summary of one accepted entry in the message text.
Summary(entry) ==
  [origin_loc |-> Split(entry.origin, OriginDelim)[1],
   origin_dt |-> Split(entry.origin, OriginDelim)[2],
   dest_loc |-> Split(entry.dest, DestDelim)[1],
   dest_dt |-> Split(entry.dest, DestDelim)[2],
   consignee |-> entry.consignee, weight |-> entry.weight,
   exc_ship_mode |-> entry.ship]

\* Mutant of UnderThreshold: the comparison off by one.
UnderThreshold_OffByOne == new_loads <= remaining_loads

\* Line 266: new_loads < remaining_loads
UnderThreshold == new_loads < remaining_loads

\* Where the for loop of line 235 goes after one more entry.
AfterEntry == IF idx + 1 = Len(data) THEN "accept" ELSE "loop"

\* Lines 235-296: one iteration of the loop over the sorted entries.  An
\* origin or dest cell without its delimiter raises IndexError, and a
\* missing logic record (None) raises TypeError when it is subscripted.
EvaluateEntry ==
  /\ pc = "loop"
  /\ LET entry == data[idx + 1] IN
       IF InHistory(entry.dsm)
       THEN /\ trace' = Append(trace, Db("find_load"))
            /\ idx' = idx + 1
            /\ pc' = AfterEntry
            /\ UNCHANGED <<loads, new_loads, action_ids, text, remaining_loads,
                           accept_data, data, logic, result, S_cookies>>
       ELSE IF \/ Len(Split(entry.origin, OriginDelim)) < 2
               \/ Len(Split(entry.dest, DestDelim)) < 2
               \/ logic = {}
       THEN /\ trace' = Append(trace, Db("find_load"))
            /\ Raise
            /\ UNCHANGED loads
       ELSE IF Matches(entry, TheDoc(logic)) /\ UnderThreshold
       THEN /\ trace' = trace \o <<Db("find_load"), Db("insert_load")>>
            /\ new_loads' = new_loads + 1
            /\ action_ids' = Append(action_ids, entry.action)
            /\ text' = Append(text, Summary(entry))
            /\ loads' = Append(loads, LoadRecord(entry, now))
            /\ idx' = idx + 1
            /\ pc' = AfterEntry
            /\ UNCHANGED <<remaining_loads, accept_data, data, logic, result,
                           S_cookies>>
       ELSE /\ trace' = Append(trace, Db("find_load"))
            /\ idx' = idx + 1
            /\ pc' = AfterEntry
            /\ UNCHANGED <<loads, new_loads, action_ids, text, remaining_loads,
                           accept_data, data, logic, result, S_cookies>>
  /\ UNCHANGED <<now, boot, listing, cmd, status_doc, threshold_doc, logic_doc, cache_doc,
                 posted, sent>>

\* Lines 299-300 and 118-124: the payload accept_load() posts.
Payload ==
  LET extra == [n \in {"postedByUserId", "biddingLocationId", "submit.x", "submit.y"} |->
                  CASE n = "postedByUserId" -> PyNone
                    [] n = "biddingLocationId" -> PyInt(227871)
                    [] n = "submit.x" -> PyInt(30)
                    [] n = "submit.y" -> PyInt(13)]
      ids == {action_ids[i] : i \in 1..Len(action_ids)}
  IN [n \in DOMAIN accept_data \cup ids \cup DOMAIN extra |->
        IF n \in DOMAIN extra THEN extra[n]
        ELSE IF n \in ids THEN PyStr("accept")
        ELSE accept_data[n]]

\* Lines 298-302 and 97-128: with new loads, accept_load() posts the
\* payload (a response that is not ok is only logged); without, "No new
\* loads found" is logged and check_loads returns.
AcceptLoad ==
  /\ pc = "accept"
  /\ IF new_loads # 0 /\ action_ids # <<>>
     THEN \E o \in Outcomes :
            /\ trace' = Append(trace, Req("accept", o))
            /\ posted' = Append(posted, Payload)
            /\ IF o = "raised"
               THEN Raise
               ELSE pc' = "notify" /\ UNCHANGED <<locals, result, S_cookies>>
     ELSE /\ Return("None")
          /\ UNCHANGED <<trace, posted, S_cookies>>
  /\ UNCHANGED <<now, boot, listing, cmd, db, sent>>

\* Lines 304-314: the Telegram message (a response that is not ok is only
\* logged).
SendMessage ==
  /\ pc = "notify"
  /\ \E o \in Outcomes :
       /\ trace' = Append(trace, Req("notify", o))
       /\ sent' = Append(sent, text)
       /\ IF o = "raised"
          THEN Raise
          ELSE Return("None") /\ UNCHANGED S_cookies
  /\ UNCHANGED <<now, boot, listing, cmd, db, posted>>

\* Lines 321-323: time.sleep(LOOP_SECONDS), then the next check_loads().
Sleep ==
  /\ pc = "sleep"
  /\ pc' = "start"
  /\ UNCHANGED <<now, boot, listing, cmd, db, S_cookies, locals, result, trace, posted, sent>>

\* The clock advances by one tick.
Tick ==
  /\ now - boot < MaxElapsed
  /\ now' = now + 1
  /\ UNCHANGED <<boot, listing, cmd, db, pc, S_cookies, locals, result, trace, posted, sent>>

\* ---------------------------------------------------------------- bot
\* Mutant of Disable: the command also clears the history of loads.
Disable_ClearsLoads ==
  /\ status_doc' = {[d EXCEPT !.enabled = FALSE] : d \in status_doc}
  /\ cmd' = (IF cmd = "none" THEN "disable" ELSE cmd)
  /\ loads' = <<>>
  /\ UNCHANGED <<now, boot, listing, threshold_doc, logic_doc, cache_doc, pc,
                 S_cookies, locals, result, trace, posted, sent>>

\* bot.py lines 33-38: update_one without upsert changes a record only when
\* there is one.
Disable ==
  /\ status_doc' = {[d EXCEPT !.enabled = FALSE] : d \in status_doc}
  /\ cmd' = (IF cmd = "none" THEN "disable" ELSE cmd)
  /\ UNCHANGED <<now, boot, listing, threshold_doc, logic_doc, loads, cache_doc, pc,
                 S_cookies, locals, result, trace, posted, sent>>

\* bot.py lines 41-46
Enable ==
  /\ status_doc' = {[d EXCEPT !.enabled = TRUE] : d \in status_doc}
  /\ cmd' = "none"
  /\ UNCHANGED <<now, boot, listing, threshold_doc, logic_doc, loads, cache_doc, pc,
                 S_cookies, locals, result, trace, posted, sent>>

\* bot.py lines 77-95
UpdateDestinations(args) ==
  /\ args # <<>>
  /\ logic_doc' = {[d EXCEPT !.destinations = args] : d \in logic_doc}
  /\ UNCHANGED <<now, boot, listing, cmd, status_doc, threshold_doc, loads, cache_doc, pc,
                 S_cookies, locals, result, trace, posted, sent>>

\* bot.py lines 98-115
UpdateConsignees(args) ==
  /\ args # <<>>
  /\ logic_doc' = {[d EXCEPT !.consignees = args] : d \in logic_doc}
  /\ UNCHANGED <<now, boot, listing, cmd, status_doc, threshold_doc, loads, cache_doc, pc,
                 S_cookies, locals, result, trace, posted, sent>>

\* bot.py lines 118-135
UpdateShipModes(args) ==
  /\ args # <<>>
  /\ logic_doc' = {[d EXCEPT !.ship_modes = args] : d \in logic_doc}
  /\ UNCHANGED <<now, boot, listing, cmd, status_doc, threshold_doc, loads, cache_doc, pc,
                 S_cookies, locals, result, trace, posted, sent>>

\* The watcher process and the clock.
Next ==
  \/ HoursGate
  \/ EnablementGate
  \/ QuotaGate
  \/ CheckSession
  \/ FetchOffers
  \/ ParseRows
  \/ EvaluateEntry
  \/ AcceptLoad
  \/ SendMessage
  \/ Sleep
  \/ Tick

Spec == Init /\ [][Next]_vars

\* The watcher beside the bot, whose command handlers run at any time; the
\* process starts inside the operating hours with no cached session, and
\* the runs are taken within one tick of the clock.
InitBot == Init /\ boot = 45 /\ cache_doc = {}

NextBot ==
  \/ HoursGate
  \/ EnablementGate
  \/ QuotaGate
  \/ CheckSession
  \/ FetchOffers
  \/ ParseRows
  \/ EvaluateEntry
  \/ AcceptLoad
  \/ SendMessage
  \/ Sleep
  \/ Disable
  \/ Enable
  \/ \E args \in DestinationArgs : UpdateDestinations(args)
  \/ \E args \in ConsigneeArgs : UpdateConsignees(args)
  \/ \E args \in ShipModeArgs : UpdateShipModes(args)

SpecBot == InitBot /\ [][NextBot]_vars

\* The watcher and the clock against a source whose listing does not change:
\* the one document is served at every fetch of the run.
InitSame ==
  /\ boot \in BootTimes
  /\ now = boot
  /\ status_doc \in {{}, {[enabled |-> TRUE]}, {[enabled |-> FALSE]}}
  /\ threshold_doc \in {{}} \cup {{[threshold |-> n]} : n \in 0..MaxThreshold}
  /\ logic_doc \in {{}} \cup {{l} : l \in InitialLogics}
  /\ loads = <<>>
  /\ cache_doc \in {{}, {[cookies |-> {boot - 1}, dt |-> boot - 1]}}
  /\ pc = "start"
  /\ S_cookies = {}
  /\ remaining_loads = 0
  /\ accept_data = <<>>
  /\ data = <<>>
  /\ idx = 0
  /\ logic = {}
  /\ new_loads = 0
  /\ action_ids = <<>>
  /\ text = <<>>
  /\ result = "None"
  /\ trace = <<>>
  /\ posted = <<>>
  /\ sent = <<>>
  /\ listing \in {{d} : d \in Documents}
  /\ cmd = "none"

SpecSame == InitSame /\ [][Next]_vars

\* The weight texts the parse is run on: the texts over a small alphabet, up
\* to MaxTextLen characters, that a cell of the listing can read once the
\* row scan has stripped it and collapsed its whitespace (lines 211-216:
\* not empty, no space at either end, no two spaces in a row), and the
\* text "Weight: 4200 lbs extra".
MaxTextLen == 5

WeightAlphabet == {"4", "2", " ", "l", "b", "s"}

Normalised(t) ==
  /\ t # <<>>
  /\ t[1] # " "
  /\ t[Len(t)] # " "
  /\ \A i \in 1..(Len(t) - 1) : ~(t[i] = " " /\ t[i + 1] = " ")

ExampleText ==
  <<"W", "e", "i", "g", "h", "t", ":", " ", "4", "2", "0", "0", " ",
    "l", "b", "s", " ", "e", "x", "t", "r", "a">>

WeightTexts ==
  {t \in UNION {[1..n -> WeightAlphabet] : n \in 1..MaxTextLen} : Normalised(t)}
    \cup {ExampleText}

\* The watcher at the parse of a fetched listing of one row, whose weight
\* cell reads any of the weight texts.
InitWeight ==
  /\ boot = 45
  /\ now = boot
  /\ status_doc = {[enabled |-> TRUE]}
  /\ threshold_doc = {[threshold |-> 1]}
  /\ logic_doc = {}
  /\ loads = <<>>
  /\ cache_doc = {[cookies |-> {boot}, dt |-> boot]}
  /\ pc = "parse"
  /\ S_cookies = {boot}
  /\ remaining_loads = 1
  /\ accept_data = ScanInputs(HiddenInputs)
  /\ \E t \in WeightTexts :
       /\ data = <<Row(1, OriginOk, DestAb, ConsCo, t, ShipC, "action1")>>
       /\ listing = {Doc(HiddenInputs, data)}
  /\ idx = 0
  /\ logic = {}
  /\ new_loads = 0
  /\ action_ids = <<>>
  /\ text = <<>>
  /\ result = "None"
  /\ trace = <<Db("find_status"), Db("find_threshold"), Db("find_loads"),
               Db("find_cache"), Req("login", "ok"), Db("update_cache"),
               Req("fetch", "ok")>>
  /\ posted = <<>>
  /\ sent = <<>>
  /\ cmd = "none"

NextWeight == ParseRows

SpecWeight == InitWeight /\ [][NextWeight]_vars

\* ------------------------------------------------------------- claims
\* The UTC calendar day of tick t.
UtcDay(t) == t \div TicksPerDay

\* The records of db.loads with status "accept" dated on UTC day d.
AcceptedOn(d) ==
  {i \in 1..Len(loads) : loads[i].status = "accept" /\ UtcDay(loads[i].dt) = d}

\* The events of the current cycle's trace with operation op.
Events(op) == {i \in 1..Len(trace) : trace[i].op = op}

\* C1. Quota invariant: under a fixed dailyThreshold, on every UTC calendar
\* day the number of persisted records with status "accept" dated on that
\* day is at most dailyThreshold (a store with no threshold record holds
\* no accepted load at all).
C1_QuotaInvariant ==
  /\ threshold_doc = {} => loads = <<>>
  /\ threshold_doc # {} =>
       \A d \in UtcDay(boot)..UtcDay(boot + MaxElapsed + 1) :
         Cardinality(AcceptedOn(d)) <= TheDoc(threshold_doc).threshold

\* C1 witness: the day's quota of two is used up, by records the watcher
\* wrote, and a later cycle has stopped at the quota gate.
C1_Witness ==
  /\ threshold_doc # {}
  /\ TheDoc(threshold_doc).threshold = 2
  /\ Cardinality(AcceptedOn(UtcDay(now))) = 2
  /\ pc = "sleep"
  /\ result = "Done"

\* The dsm values of the records of db.loads.
HistoryDsms == {loads[i].dsm : i \in 1..Len(loads)}

\* C2. Deduplication: an entry whose dsm is already in db.loads when it is
\* evaluated is never selected (nothing is inserted, no action id is taken,
\* no summary is added), so db.loads never holds two records of one dsm.
C2_Deduplication ==
  /\ [](\A i, j \in 1..Len(loads) : loads[i].dsm = loads[j].dsm => i = j)
  /\ [][(pc = "loop" /\ pc' # "crashed" /\ idx' = idx + 1
          /\ data[idx + 1].dsm \in HistoryDsms)
        => (loads' = loads /\ action_ids' = action_ids /\ new_loads' = new_loads
            /\ text' = text)]_vars

\* C2 witness: the listing repeats dsm 1 in two matching rows with quota
\* left for both; the loop is past both rows and the store holds one record
\* of dsm 1.
C2_Witness ==
  /\ pc = "accept"
  /\ remaining_loads = 2
  /\ new_loads = 1
  /\ \E i, j \in 1..Len(data) :
       /\ i < j
       /\ data[i].dsm = 1
       /\ data[j].dsm = 1
       /\ Matches(data[i], TheDoc(logic))
       /\ Matches(data[j], TheDoc(logic))
  /\ Cardinality({i \in 1..Len(loads) : loads[i].dsm = 1}) = 1

\* C3. Scheduler survival: no failure inside a cycle terminates the
\* process.
C3_SchedulerSurvives == pc # "crashed"

\* The minute of the US/Eastern day at tick t.
EasternMinute(t) == (t * 30 + (24 - 5) * 60) % (24 * 60)

\* The operations of trace tr that are op.
EventsIn(tr, op) == {i \in 1..Len(tr) : tr[i].op = op}

\* The current cycle has so far not ensured a session, fetched, persisted a
\* load, submitted or notified.
NothingBeyondGates ==
  /\ \A i \in 1..Len(trace) :
       trace[i].op \in {"find_status", "insert_status", "find_threshold", "find_loads"}
  /\ posted = <<>>
  /\ sent = <<>>

\* C4. Operating-hours gate: a cycle that starts when the Eastern time is
\* before 06:00 or after 18:00 (18:30, say) returns the outside-hours result
\* and touches neither the store nor the network.
C4_OutsideHoursSkips ==
  [][(pc = "start" /\ pc' # "start"
       /\ (EasternMinute(now) < 6 * 60 \/ EasternMinute(now) > 18 * 60))
     => (pc' = "sleep" /\ result' = "Outside of hours" /\ trace' = <<>>
         /\ posted' = <<>> /\ sent' = <<>> /\ UNCHANGED <<db, S_cookies>>)]_vars

\* C5. Enablement gate: with a status record that is disabled the cycle
\* returns the disabled result having only read that record; with no status
\* record the cycle inserts one that is enabled and goes on to the quota
\* gate.
C5_EnablementGate ==
  /\ [][(pc = "status" /\ pc' # "status") =>
          IF status_doc # {} /\ ~TheDoc(status_doc).enabled
          THEN /\ pc' = "sleep"
               /\ result' = "Disabled"
               /\ trace' = <<Db("find_status")>>
               /\ UNCHANGED <<db, S_cookies, posted, sent>>
          ELSE IF status_doc = {}
          THEN /\ status_doc' = {[enabled |-> TRUE]}
               /\ pc' = "quota"
               /\ UNCHANGED <<loads, cache_doc, S_cookies, posted, sent>>
          ELSE pc' = "quota" /\ UNCHANGED db]_vars
  /\ [](pc = "sleep" /\ result = "Disabled" =>
          NothingBeyondGates /\ status_doc = {[enabled |-> FALSE]})

\* C5 witness: inside the operating hours a cycle has returned the disabled
\* result.
C5_Witness ==
  /\ pc = "sleep"
  /\ result = "Disabled"
  /\ trace = <<Db("find_status")>>
  /\ loads = <<>>

\* C6. Quota gate: remaining is the threshold minus the number of records
\* of db.loads with status "accept" dated at or after the start of the
\* current UTC day, read from the store when the gate runs; when it is not
\* positive the cycle returns the threshold-met result without ensuring a
\* session, fetching, persisting, submitting or notifying.
C6_QuotaGate ==
  /\ [][(pc = "quota" /\ pc' # "quota" /\ threshold_doc # {}) =>
          LET midnight == now - (now % TicksPerDay)
              counted == {i \in 1..Len(loads) :
                            loads[i].status = "accept" /\ loads[i].dt >= midnight}
              r == TheDoc(threshold_doc).threshold - Cardinality(counted)
          IN IF r <= 0
             THEN /\ pc' = "sleep"
                  /\ result' = "Done"
                  /\ UNCHANGED <<db, S_cookies, posted, sent>>
             ELSE pc' = "session" /\ remaining_loads' = r /\ UNCHANGED db]_vars
  /\ [](pc = "sleep" /\ result = "Done" => NothingBeyondGates)

\* C6 witness: a cycle has stopped at the quota gate on the one record the
\* store holds for today, under a threshold of one.
C6_Witness ==
  /\ pc = "sleep"
  /\ result = "Done"
  /\ threshold_doc = {[threshold |-> 1]}
  /\ Len(loads) = 1
  /\ loads[1].dt >= StartOfDay(now)

\* C7. Session reuse: a cycle that reaches check_session while the cached
\* token is at most one hour old issues no login request and uses the
\* cached token (loaded into the jar when the jar is empty); a cycle that
\* reaches it with no cached token, or one older than an hour, issues
\* exactly one login request and, the request answered, caches the jar with
\* the current time.
C7_SessionReuse ==
  [][(pc = "session" /\ pc' # "session") =>
       IF cache_doc # {} /\ (now - TheDoc(cache_doc).dt) * 30 <= 60
       THEN /\ EventsIn(trace', "login") = {}
            /\ cache_doc' = cache_doc
            /\ S_cookies' = TheDoc(cache_doc).cookies
            /\ pc' = "fetch"
       ELSE /\ Cardinality(EventsIn(trace', "login")) = 1
            /\ pc' \in {"fetch", "crashed"}
            /\ pc' = "fetch" =>
                 cache_doc' = {[cookies |-> S_cookies', dt |-> now]}]_vars

\* C7 witness: a cycle is past check_session without a login request, on a
\* token that an earlier cycle of this process cached exactly one hour ago.
C7_Witness ==
  /\ pc = "fetch"
  /\ EventsIn(trace, "login") = {}
  /\ cache_doc # {}
  /\ TheDoc(cache_doc).dt >= boot
  /\ now - TheDoc(cache_doc).dt = 2
  /\ S_cookies = TheDoc(cache_doc).cookies
  /\ S_cookies # {}

\* C8. Rejected login: when the source rejects the credentials the cycle
\* aborts before the fetch, and nothing of the rejected login is cached.
C8_RejectedLoginAborts ==
  (\E i \in EventsIn(trace, "login") : trace[i].out = "not_ok") =>
    /\ EventsIn(trace, "update_cache") = {}
    /\ EventsIn(trace, "fetch") = {}
    /\ pc \in {"sleep", "crashed"}

\* Two characters that are the same letter in either case.
SameLetter(c, d) ==
  \/ c = d
  \/ \E pair \in {<<"A", "a">>, <<"B", "b">>, <<"C", "c">>, <<"D", "d">>,
                  <<"O", "o">>, <<"P", "p">>, <<"X", "x">>} :
       {c, d} = {pair[1], pair[2]}

\* Pattern p is a case-insensitive substring of text s.
CISubstring(p, s) ==
  \E k \in 0..(Len(s) - Len(p)) : \A j \in 1..Len(p) : SameLetter(p[j], s[k + j])

\* The field of an entry that a category of the rules is matched against.
FieldOf(entry, cat) ==
  CASE cat = "destinations" -> Split(entry.dest, DestDelim)[1]
    [] cat = "consignees" -> entry.consignee
    [] cat = "ship_modes" -> entry.ship

Categories == {"destinations", "consignees", "ship_modes"}

\* The patterns of a category that qualify an entry.
Qualifying(entry, rules, cat) ==
  {n \in 1..Len(rules[cat]) : CISubstring(rules[cat][n], FieldOf(entry, cat))}

\* An entry matches the rules: every category has a qualifying pattern.
RuleMatch(entry, rules) ==
  \A cat \in Categories : Qualifying(entry, rules, cat) # {}

\* Sequence s without its n-th element.
Without(s, n) == SubSeq(s, 1, n - 1) \o SubSeq(s, n + 1, Len(s))

\* db.loads as it was when the current cycle's loop began, and the records
\* the loop has inserted since.
LenAtLoopStart == Len(loads) - new_loads
DsmsAtLoopStart == {loads[i].dsm : i \in 1..LenAtLoopStart}
SelectedRecords == {loads[i] : i \in (LenAtLoopStart + 1)..Len(loads)}
SelectedDsms == {r.dsm : r \in SelectedRecords}

\* The offers of the cycle's listing that are not in the history and match
\* the rules, by dsm, and the weight of the lightest such row of a dsm.
EligibleRows ==
  IF logic = {} THEN {}
  ELSE {i \in 1..Len(data) :
          data[i].dsm \notin DsmsAtLoopStart /\ RuleMatch(data[i], TheDoc(logic))}
EligibleDsms == {data[i].dsm : i \in EligibleRows}
LightestOf(dsm) ==
  CHOOSE w \in {data[i].weight : i \in {e \in EligibleRows : data[e].dsm = dsm}} :
    \A i \in EligibleRows : data[i].dsm = dsm => w <= data[i].weight

MinOf(a, b) == IF a <= b THEN a ELSE b

\* C9. Lightest-first selection: the entries are evaluated in ascending
\* order of weight; no eligible offer is selected while a lighter eligible
\* one is left unselected; and when the loop is over the selected offers
\* are exactly the min(remaining, k) lightest of the k eligible ones.
C9_LightestFirst ==
  pc \in {"loop", "accept", "notify"} =>
    /\ \A i, j \in 1..Len(data) : i < j => data[i].weight <= data[j].weight
    /\ SelectedDsms \subseteq EligibleDsms
    /\ Cardinality(SelectedRecords) = new_loads
    /\ \A r \in SelectedRecords :
         /\ r.weight = LightestOf(r.dsm)
         /\ \A u \in EligibleDsms \ SelectedDsms : r.weight <= LightestOf(u)
    /\ pc \in {"accept", "notify"} =>
         Cardinality(SelectedDsms) = MinOf(remaining_loads, Cardinality(EligibleDsms))

\* C9 witness: threshold 2, no prior loads, three matching offers listed as
\* 200, 150, 400: the loop is over and exactly 150 and 200 are selected.
C9_Witness ==
  /\ pc = "accept"
  /\ remaining_loads = 2
  /\ LenAtLoopStart = 0
  /\ [i \in 1..Len(data) |-> data[i].weight] = <<150, 200, 400>>
  /\ Cardinality(EligibleDsms) = 3
  /\ {r.weight : r \in SelectedRecords} = {150, 200}

\* C10. Rule matching: an evaluated entry that is not in the history, with
\* quota left, is selected and persisted iff every category of the rules
\* has a pattern that is a case-insensitive substring of the entry's field;
\* nothing else is persisted; a category with no pattern makes no entry
\* match, and without the sole qualifying pattern of a category the entry no
\* longer matches.
C10_RuleMatching ==
  /\ [][(pc = "loop" /\ pc' # "crashed" /\ idx' = idx + 1) =>
          LET e == data[idx + 1] IN
            /\ loads' # loads =>
                 /\ logic # {}
                 /\ RuleMatch(e, TheDoc(logic))
                 /\ loads' = Append(loads, LoadRecord(e, now))
            /\ (e.dsm \notin HistoryDsms /\ new_loads < remaining_loads) =>
                 (loads' # loads <=> RuleMatch(e, TheDoc(logic)))]_vars
  /\ [](pc = "loop" /\ logic # {} =>
          \A i \in 1..Len(data) : \A cat \in Categories :
            LET e == data[i]
                rules == TheDoc(logic)
            IN /\ Matches(e, rules) <=> RuleMatch(e, rules)
               /\ rules[cat] = <<>> => ~Matches(e, rules)
               /\ \A n \in 1..Len(rules[cat]) :
                    (Matches(e, rules) /\ Qualifying(e, rules, cat) = {n}) =>
                      ~Matches(e, [rules EXCEPT ![cat] = Without(rules[cat], n)]))

\* C10 witness: with quota left, an entry not in the history whose
\* destination and consignee qualify and whose ship mode does not has been
\* evaluated, and nothing was persisted for it.
C10_Witness ==
  /\ pc = "accept"
  /\ idx = Len(data)
  /\ logic # {}
  /\ new_loads < remaining_loads
  /\ data[idx].dsm \notin HistoryDsms
  /\ Qualifying(data[idx], TheDoc(logic), "destinations") # {}
  /\ Qualifying(data[idx], TheDoc(logic), "consignees") # {}
  /\ Qualifying(data[idx], TheDoc(logic), "ship_modes") = {}

\* The records the current cycle has inserted into db.loads.
CycleInserts == Cardinality(Events("insert_load"))
CycleRecords == SubSeq(loads, Len(loads) - CycleInserts + 1, Len(loads))

\* C11. Submission failure: when the acceptance request of a cycle fails
\* (raises) or is answered with a response that is not ok, the failure is
\* only logged: the records of the offers selected in the cycle are
\* persisted, the cycle goes on to send its notification, and no offer is
\* ever persisted twice.
C11_SubmissionFailureOnlyLogged ==
  (\E i \in Events("accept") : trace[i].out # "ok") =>
    /\ CycleInserts >= 1
    /\ \A k \in 1..Len(CycleRecords) : CycleRecords[k].status = "accept"
    /\ \A i, j \in 1..Len(loads) : loads[i].dsm = loads[j].dsm => i = j
    /\ pc = "notify" \/ Events("notify") # {}

\* The pattern (\d+)\s*lbs occurs in text s from position a: a run of digits
\* s[a..b], then whitespace up to position k, where "lbs" stands.
LbsAt(s, k) ==
  k + 2 <= Len(s) /\ s[k] = "l" /\ s[k + 1] = "b" /\ s[k + 2] = "s"
PatternFrom(s, a, b) ==
  /\ a <= b
  /\ \A j \in a..b : s[j] \in {"0", "1", "2", "3", "4", "5", "6", "7", "8", "9"}
  /\ \E k \in (b + 1)..Len(s) :
       (\A j \in (b + 1)..(k - 1) : s[j] = " ") /\ LbsAt(s, k)
PatternOccurs(s) ==
  \E a \in 1..Len(s) : \E b \in a..Len(s) : PatternFrom(s, a, b)

\* C12. Parse-failure exit: when the weight text of some extracted row
\* carries no occurrence of the weight pattern, the cycle aborts at the
\* parse: up to there nothing was selected, persisted, submitted or sent,
\* and the abort selects no offer of the document, persists no record,
\* submits no acceptance request and sends no notification.
C12_ParseFailureAborts ==
  /\ [][(/\ pc = "parse"
         /\ pc' # "parse"
         /\ \E i \in 1..Len(data) : ~PatternOccurs(data[i].weight))
        => (/\ pc' = "crashed"
            /\ new_loads' = 0
            /\ action_ids' = <<>>
            /\ UNCHANGED <<db, trace, posted, sent>>)]_vars
  /\ [](pc = "parse" =>
          /\ Events("insert_load") = {}
          /\ Events("accept") = {}
          /\ Events("notify") = {}
          /\ posted = <<>>
          /\ sent = <<>>)

\* C12 witness: a cycle has fetched a listing whose first row reads 150 lbs
\* and whose second row carries no weight, and has aborted at the parse
\* with nothing persisted, submitted or sent.
C12_Witness ==
  /\ pc = "crashed"
  /\ trace # <<>>
  /\ trace[Len(trace)] = Req("fetch", "ok")
  /\ \E d \in listing :
       /\ Len(d.rows) = 2
       /\ PatternOccurs(d.rows[1].weight)
       /\ ~PatternOccurs(d.rows[2].weight)
  /\ loads = <<>>
  /\ posted = <<>>
  /\ sent = <<>>

\* C13. Fetch-failure exit: when the listing fetch is answered with a
\* response that is not ok, check_loads returns to the scheduler without
\* raising, whatever the body of the response: the store (the history of
\* accepted loads included) and the session are as they were, nothing is
\* submitted or sent, and the scheduler goes on to its next cycle.
C13_FetchFailureExit ==
  /\ [][(/\ pc = "fetch"
         /\ trace' # trace
         /\ trace'[Len(trace')] = Req("fetch", "not_ok"))
        => (/\ pc' = "sleep"
            /\ result' = "None"
            /\ posted' = <<>>
            /\ sent' = <<>>
            /\ UNCHANGED <<db, S_cookies>>)]_vars
  /\ [][(/\ pc = "sleep"
         /\ trace # <<>>
         /\ trace[Len(trace)] = Req("fetch", "not_ok"))
        => pc' \in {"sleep", "start"}]_vars

\* C13 witness: a cycle that logged in has had its fetch answered with a
\* response that is not ok and has returned to the scheduler, with nothing
\* in the history.
C13_Witness ==
  /\ pc = "sleep"
  /\ result = "None"
  /\ trace # <<>>
  /\ trace[Len(trace)] = Req("fetch", "not_ok")
  /\ Events("login") # {}
  /\ loads = <<>>
  /\ posted = <<>>
  /\ sent = <<>>

\* The summary the message text carries for a persisted record.
SummaryOf(rec) ==
  [origin_loc |-> rec.origin_loc, origin_dt |-> rec.origin_dt,
   dest_loc |-> rec.dest_loc, dest_dt |-> rec.dest_dt,
   consignee |-> rec.consignee, weight |-> rec.weight,
   exc_ship_mode |-> rec.exc_ship_mode]

\* C14. Notification: a cycle that has selected n >= 1 offers ends having
\* sent exactly one notification, whose summaries are those of the records
\* the cycle persisted, in the order of their evaluation; a cycle that has
\* selected nothing, or has stopped at a gate, ends having sent none; and
\* no cycle sends more than one.
C14_OneNotification ==
  /\ Len(sent) <= 1
  /\ pc \in {"sleep", "crashed"} =>
       IF CycleInserts >= 1
       THEN /\ Len(sent) = 1
            /\ sent[1] = [k \in 1..CycleInserts |-> SummaryOf(CycleRecords[k])]
       ELSE sent = <<>>

\* A step of the watcher process (every one moves pc or the loop index); in
\* SpecBot every other step is one of the bot's handlers.
WatcherStep == pc' # pc \/ idx' # idx

\* C15. Writer separation: the watcher never writes a settings record
\* (status, load-threshold, logic), and the bot's handlers never write the
\* session cache or the accepted loads.
C15_WriterSeparation ==
  [][/\ WatcherStep => UNCHANGED <<status_doc, threshold_doc, logic_doc>>
     /\ ~WatcherStep => UNCHANGED <<cache_doc, loads>>]_vars

\* C15 as amended: the watcher never writes the load-threshold or logic
\* record, and writes the status record only to insert an enabled one where
\* there is none; the bot's handlers never write the session cache or the
\* accepted loads.
C15_WriterSeparationAmended ==
  [][/\ WatcherStep =>
          /\ UNCHANGED <<threshold_doc, logic_doc>>
          /\ status_doc' # status_doc =>
               /\ pc = "status"
               /\ status_doc = {}
               /\ status_doc' = {[enabled |-> TRUE]}
     /\ ~WatcherStep => UNCHANGED <<cache_doc, loads>>]_vars

\* C15 witness: the watcher has inserted the status record, cached a
\* session and persisted a load, and the bot has since disabled the watcher.
C15_Witness ==
  /\ Events("insert_status") # {}
  /\ cache_doc # {}
  /\ Len(loads) >= 1
  /\ status_doc = {[enabled |-> FALSE]}

\* Every offer of the one document the source serves that matches the stored
\* rules has a record in the history.
AllTaken ==
  /\ Cardinality(listing) = 1
  /\ logic_doc # {}
  /\ \A i \in 1..Len(TheDoc(listing).rows) :
       RuleMatch(TheDoc(listing).rows[i], TheDoc(logic_doc)) =>
         TheDoc(listing).rows[i].dsm \in HistoryDsms

\* A step of a cycle that has selected nothing so far, taken when an earlier
\* cycle of the run has accepted every qualifying offer of the unchanged
\* document.
SecondCycleStep ==
  /\ AllTaken
  /\ Len(loads) >= 1
  /\ new_loads = 0
  /\ pc \notin {"sleep", "crashed"}
  /\ WatcherStep

\* C16. Idempotence: once a cycle has accepted every qualifying offer of the
\* document, a later cycle against the same unchanged document persists no
\* record, submits no acceptance request, sends no notification, and
\* returns the no-new-loads result (None).
C16_Idempotence ==
  [][SecondCycleStep =>
       /\ loads' = loads
       /\ posted' = <<>>
       /\ sent' = <<>>
       /\ pc' = "sleep" => result' = "None"]_vars

\* C16 as amended: such a later cycle persists no record, submits no
\* acceptance request and sends no notification; it returns the
\* no-new-loads result when it has evaluated the rows of the document, and
\* the result of the gate that stopped it otherwise (the threshold-met
\* result when the quota of the day is used up).
C16_IdempotenceAmended ==
  [][SecondCycleStep =>
       /\ loads' = loads
       /\ posted' = <<>>
       /\ sent' = <<>>
       /\ pc = "accept" => (pc' = "sleep" /\ result' = "None")
       /\ pc = "quota" /\ RemainingLoads(now) <= 0 =>
            (pc' = "sleep" /\ result' = "Done")
       /\ pc' = "sleep" =>
            result' \in {"None", "Done", "Outside of hours", "Disabled"}]_vars

\* C16 witness: with quota left, a cycle has evaluated the rows of the
\* document whose qualifying offers an earlier cycle accepted, and has
\* returned None having persisted, submitted and sent nothing.
C16_Witness ==
  /\ AllTaken
  /\ Len(loads) >= 1
  /\ pc = "sleep"
  /\ result = "None"
  /\ Events("find_load") # {}
  /\ CycleInserts = 0
  /\ posted = <<>>
  /\ sent = <<>>

\* The names the payload p carries with the value "accept".
AcceptNames(p) == {n \in DOMAIN p : p[n] = PyStr("accept")}

\* C17. Acceptance payload: a cycle posts at most one acceptance request,
\* and one once it has selected an offer and is past the submission; the
\* request carries every name of the scanned hidden-field map, and the
\* names it carries with the value "accept" are exactly the action ids of
\* the offers the cycle selected, so that no skipped offer is submitted as
\* accepted.
C17_AcceptancePayload ==
  /\ Len(posted) <= 1
  /\ pc = "notify" =>
       /\ new_loads >= 1
       /\ Len(posted) = 1
       /\ DOMAIN accept_data \subseteq DOMAIN posted[1]
       /\ AcceptNames(posted[1]) = {action_ids[i] : i \in 1..Len(action_ids)}

\* C18. Step ordering: within a cycle the acceptance request is sent before
\* any record of the cycle is persisted, every record is persisted before
\* the notification, and the selection is over when the request is sent:
\* in the cycle's trace every insert into db.loads comes after the accept
\* request and before the notify request, and no lookup of the history
\* comes after the accept request.
C18_StepOrdering ==
  /\ \A i \in Events("insert_load") : \E j \in Events("accept") : j < i
  /\ \A i \in Events("insert_load") : \A j \in Events("notify") : i < j
  /\ \A i \in Events("find_load") : \A j \in Events("accept") : i < j

\* C19. Disable takes effect: when a disable command has completed, no
\* enable command has followed it and a cycle has started since, that cycle
\* does not get past the enablement gate (it is at the gate, or has
\* returned there, or the scheduler is about to start the next one) and
\* has neither fetched nor accepted anything; also when the status record
\* did not exist when the command ran.
C19_DisableTakesEffect ==
  cmd = "disable_before_cycle" =>
    /\ pc \in {"status", "sleep", "start"}
    /\ pc = "sleep" => result \in {"Disabled", "Outside of hours"}
    /\ NothingBeyondGates
    /\ Events("find_threshold") = {}

\* The integer a run of digits s[a..b] reads as.
RECURSIVE DigitRunValue(_, _, _)
DigitRunValue(s, a, b) ==
  IF b < a THEN 0 ELSE DigitRunValue(s, a, b - 1) * 10 + DigitVal(s[b])

\* The value of the digit run of the first occurrence of (\d+)\s*lbs in s.
FirstRunValue(s) ==
  LET starts == {a \in 1..Len(s) : \E b \in a..Len(s) : PatternFrom(s, a, b)}
      a == CHOOSE x \in starts : \A y \in starts : x <= y
      b == CHOOSE y \in a..Len(s) : PatternFrom(s, a, y)
  IN DigitRunValue(s, a, b)

\* C20. Weight parsing: the parse of a weight text that carries a run of
\* digits, then whitespace or none, then "lbs" yields the integer of the
\* first such run ("Weight: 4200 lbs extra" yields 4200), and the parse of
\* a text that carries no such occurrence fails.
C20_WeightParsing ==
  [][(pc = "parse" /\ pc' # "parse") =>
       LET t == data[1].weight IN
         IF PatternOccurs(t)
         THEN /\ pc' = "loop"
              /\ data'[1].weight = FirstRunValue(t)
              /\ t = ExampleText => data'[1].weight = 4200
         ELSE pc' = "crashed"]_vars

=============================================================================
